---- MODULE Spec2Model ----
(***************************************************************************)
(* Model of the vimo-ffi crate: C string marshaling (string.rs), the error *)
(* out-parameter channel (error.rs) and the panic barrier (panic.rs).      *)
(*                                                                         *)
(* Text is a sequence of byte values.  A Rust &str / String is a valid     *)
(* UTF-8 byte sequence (it may contain the byte 0); a C string is raw      *)
(* memory read up to its first 0 byte.  Pointers are naturals: NULL, the   *)
(* addresses 1..MaxAddr of the Rust heap, and one address ForeignAddr of a *)
(* caller-owned buffer whose content the caller chooses per call.          *)
(***************************************************************************)
EXTENDS Integers, Sequences, FiniteSets, TLC

\* ------------------------------------------------------------------ bounds
MaxLen == 2
MaxAddr == 2
NSlots == 1
MaxMsgLen == 1

\* --------------------------------------------------------------- constants
NUL == 0
NULL == 0

Alphabet == {NUL, 65, 195, 169}
Values == {0, 1}
Addrs == 1..MaxAddr
ForeignAddr == MaxAddr + 1
Slots == 1..NSlots

SeqsUpTo(S, n) == UNION {[1..k -> S] : k \in 0..n}

\* ------------------------------------------------ UTF-8 validation (to_str)
IsCont(b) == b >= 128 /\ b <= 191

utf8_char_width(b) ==
    IF b < 128 THEN 1
    ELSE IF b >= 194 /\ b <= 223 THEN 2
    ELSE IF b >= 224 /\ b <= 239 THEN 3
    ELSE IF b >= 240 /\ b <= 244 THEN 4
    ELSE 0

RECURSIVE run_utf8_validation(_)
run_utf8_validation(v) ==
    IF v = <<>> THEN TRUE
    ELSE LET first == v[1]
             w == utf8_char_width(first)
         IN  IF w = 0 \/ Len(v) < w THEN FALSE
             ELSE IF w = 1 THEN run_utf8_validation(SubSeq(v, 2, Len(v)))
             ELSE IF w = 2 THEN
                  IsCont(v[2]) /\ run_utf8_validation(SubSeq(v, 3, Len(v)))
             ELSE IF w = 3 THEN
                  /\ \/ first = 224 /\ v[2] >= 160 /\ v[2] <= 191
                     \/ first >= 225 /\ first <= 236 /\ IsCont(v[2])
                     \/ first = 237 /\ v[2] >= 128 /\ v[2] <= 159
                     \/ first >= 238 /\ first <= 239 /\ IsCont(v[2])
                  /\ IsCont(v[3])
                  /\ run_utf8_validation(SubSeq(v, 4, Len(v)))
             ELSE /\ \/ first = 240 /\ v[2] >= 144 /\ v[2] <= 191
                     \/ first >= 241 /\ first <= 243 /\ IsCont(v[2])
                     \/ first = 244 /\ v[2] >= 128 /\ v[2] <= 143
                  /\ IsCont(v[3])
                  /\ IsCont(v[4])
                  /\ run_utf8_validation(SubSeq(v, 5, Len(v)))

\* Rust strings the callers can pass: valid UTF-8, possibly containing 0.
Texts == {s \in SeqsUpTo(Alphabet, MaxLen) : run_utf8_validation(s)}

\* Error and panic messages: Rust strings too, kept shorter.
Messages == {s \in Texts : Len(s) <= MaxMsgLen /\ \A i \in 1..Len(s) : s[i] \in {NUL, 65}}

\* Caller-owned C buffers: any bytes, closed by a terminator.
ForeignBuffers == {s \o <<NUL>> : s \in SeqsUpTo(Alphabet, MaxLen)}

\* ------------------------------------------------------------ result values
\* One record shape for every Result / Option / plain return value.
NoRes == [ok |-> TRUE, err |-> "", ptr |-> NULL, text |-> <<>>, some |-> FALSE, val |-> 0]
ErrRes(e) == [NoRes EXCEPT !.ok = FALSE, !.err = e]
TextRes(t) == [NoRes EXCEPT !.text = t, !.some = TRUE]
PtrRes(p) == [NoRes EXCEPT !.ptr = p]
ValRes(v) == [NoRes EXCEPT !.val = v]

\* ------------------------------------------------------------------- state
VARIABLES mem, slots, last
vars == <<mem, slots, last>>

\* mem[a] is the raw content of heap address a, <<>> when a is not allocated
\* (an allocated C string holds at least its terminator).
Live(m, a) == a \in Addrs /\ m[a] # <<>>
FreeAddrs(m) == {a \in Addrs : m[a] = <<>>}

\* The memory a call can read: the heap plus the caller's buffer.
View(m, raw) == [a \in Addrs \cup {ForeignAddr} |-> IF a = ForeignAddr THEN raw ELSE m[a]]

\* ------------------------------------------------------- string.rs helpers
Contains(s, b) == \E i \in 1..Len(s) : s[i] = b

\* CString::new: Err when the bytes contain 0, else the bytes plus terminator.
CString_new(s) ==
    IF Contains(s, NUL) THEN ErrRes("NulError") ELSE TextRes(s \o <<NUL>>)

\* Length of the C string at the start of raw memory (strlen).
RECURSIVE strlen(_)
strlen(raw) ==
    IF raw = <<>> \/ raw[1] = NUL THEN 0 ELSE 1 + strlen(Tail(raw))

\* CStr::from_ptr(ptr).to_bytes(): the bytes before the first terminator.
CStr_from_ptr(ptr, m) == SubSeq(m[ptr], 1, strlen(m[ptr]))

\* CStr::to_str: the bytes as text, or Utf8Error.
to_str(bytes) ==
    IF run_utf8_validation(bytes) THEN TextRes(bytes) ELSE ErrRes("Utf8Error")

\* Variant: an empty C string is taken for a missing one.
cstr_to_str_rejects_empty(ptr, m) ==
    IF ptr = NULL \/ m[ptr][1] = NUL THEN ErrRes("NullPointer")
    ELSE LET r == to_str(CStr_from_ptr(ptr, m))
         IN  IF r.ok THEN r ELSE ErrRes("InvalidUtf8")

cstr_to_str(ptr, m) ==
    IF ptr = NULL THEN ErrRes("NullPointer")
    ELSE LET r == to_str(CStr_from_ptr(ptr, m))
         IN  IF r.ok THEN r ELSE ErrRes("InvalidUtf8")

cstr_to_string(ptr, m) ==
    LET r == cstr_to_str(ptr, m)
    IN  IF r.ok THEN TextRes(r.text) ELSE r

\* Variant: null is passed on to cstr_to_str instead of mapping to None.
cstr_to_option_str_null_is_error(ptr, m) ==
    LET r == cstr_to_str(ptr, m)
    IN  IF r.ok THEN TextRes(r.text) ELSE r

cstr_to_option_str(ptr, m) ==
    IF ptr = NULL THEN NoRes
    ELSE LET r == cstr_to_str(ptr, m)
         IN  IF r.ok THEN TextRes(r.text) ELSE r

cstr_to_str_or(ptr, default, m) ==
    IF ptr = NULL THEN TextRes(default)
    ELSE LET r == to_str(CStr_from_ptr(ptr, m))
         IN  IF r.ok THEN r ELSE TextRes(default)

\* -------------------------------------------------------- error.rs helpers
FfiErrors ==
    {[variant |-> v, msg |-> <<>>] : v \in {"NullPointer", "InvalidUtf8", "StringContainsNull"}}
    \cup {[variant |-> "Custom", msg |-> t] : t \in Messages}

\* #[error("...")] renderings of FfiError.
FfiError_fmt(e) ==
    CASE e.variant = "NullPointer" ->
           <<110, 117, 108, 108, 32, 112, 111, 105, 110, 116, 101, 114>>
      [] e.variant = "InvalidUtf8" ->
           <<105, 110, 118, 97, 108, 105, 100, 32, 85, 84, 70, 45, 56, 32,
             115, 116, 114, 105, 110, 103>>
      [] e.variant = "StringContainsNull" ->
           <<115, 116, 114, 105, 110, 103, 32, 99, 111, 110, 116, 97, 105, 110,
             115, 32, 110, 117, 108, 108, 32, 98, 121, 116, 101>>
      [] OTHER -> e.msg

\* The domain errors E: Display a guarded unit of work can return: an FfiError,
\* or a type whose Display implementation itself panics.
DomainErrors == FfiErrors \cup {[variant |-> "PanickingDisplay", msg |-> <<>>]}

\* e.to_string(): the rendered text, or a panic raised while rendering.
to_string(e) ==
    IF e.variant = "PanickingDisplay" THEN ErrRes("panic") ELSE TextRes(FfiError_fmt(e))

\* -------------------------------------------------------- panic.rs helpers
\* Panic payloads (Box<dyn Any + Send>): a &'static str, a String, or any
\* other type.
Payloads ==
    {[shape |-> sh, text |-> t] : sh \in {"str", "String"}, t \in Messages}
    \cup {[shape |-> "other", text |-> <<>>]}

UnknownPanic == <<117, 110, 107, 110, 111, 119, 110, 32, 112, 97, 110, 105, 99>>
InternalPanicPrefix ==
    <<105, 110, 116, 101, 114, 110, 97, 108, 32, 112, 97, 110, 105, 99, 58, 32>>
PanicCaughtPrefix ==
    <<91, 118, 105, 109, 111, 45, 102, 102, 105, 93, 32, 112, 97, 110, 105, 99,
      32, 99, 97, 117, 103, 104, 116, 58, 32>>

\* Variant: only the &str downcast is tried.
extract_panic_message_str_only(panic) ==
    IF panic.shape = "str" THEN panic.text ELSE UnknownPanic

extract_panic_message(panic) ==
    IF panic.shape = "str" THEN panic.text
    ELSE IF panic.shape = "String" THEN panic.text
    ELSE UnknownPanic

NoErr == [variant |-> "NullPointer", msg |-> <<>>]
NoPayload == [shape |-> "other", text |-> <<>>]
WorkOk(v) == [kind |-> "Ok", val |-> v, e |-> NoErr, payload |-> NoPayload]
WorkErr(e) == [kind |-> "Err", val |-> 0, e |-> e, payload |-> NoPayload]
WorkPanic(p) == [kind |-> "Panic", val |-> 0, e |-> NoErr, payload |-> p]

\* Units of work F: FnOnce() -> Result<T, E> and F: FnOnce() -> T.
ResultWorks ==
    {WorkOk(v) : v \in Values} \cup {WorkErr(e) : e \in DomainErrors}
    \cup {WorkPanic(p) : p \in Payloads}
PlainWorks == {WorkOk(v) : v \in Values} \cup {WorkPanic(p) : p \in Payloads}

\* The record of the call just made: its inputs, how it ended ("returned" a
\* value or "unwound" with a panic leaving the function) and what came out.
NoCall ==
    [op |-> "none", slot |-> NULL, ptr |-> NULL, text |-> <<>>, raw |-> <<>>,
     dflt |-> 0, work |-> WorkOk(0), cb |-> "none", outcome |-> "returned",
     res |-> NoRes, logged |-> <<>>, delivered |-> <<>>]

\* ------------------------------------------------------------- operations
\* Variant: the text is cut at its first 0 byte instead of being refused.
str_to_cstring_truncates(s) ==
    \E a \in FreeAddrs(mem) :
        /\ mem' = [mem EXCEPT ![a] = SubSeq(s, 1, strlen(s)) \o <<NUL>>]
        /\ last' = [NoCall EXCEPT !.op = "str_to_cstring", !.text = s,
                                  !.res = PtrRes(a)]

\* str_to_cstring(s): CString::new(s).map(into_raw), the buffer placed at any
\* address the allocator finds free.
str_to_cstring(s) ==
    LET r == CString_new(s)
    IN  IF r.ok
        THEN \E a \in FreeAddrs(mem) :
                /\ mem' = [mem EXCEPT ![a] = r.text]
                /\ last' = [NoCall EXCEPT !.op = "str_to_cstring", !.text = s,
                                          !.res = PtrRes(a)]
        ELSE /\ mem' = mem
             /\ last' = [NoCall EXCEPT !.op = "str_to_cstring", !.text = s,
                                       !.res = ErrRes("StringContainsNull")]

\* vimo_ffi_free_string(ptr): CString::from_raw(ptr) dropped unless ptr is null.
vimo_ffi_free_string(ptr) ==
    /\ mem' = IF ptr # NULL THEN [mem EXCEPT ![ptr] = <<>>] ELSE mem
    /\ last' = [NoCall EXCEPT !.op = "vimo_ffi_free_string", !.ptr = ptr]

\* Variant: a message CString::new refuses is replaced by the empty string.
set_error_writes_default(out_error, msg) ==
    IF out_error = NULL THEN UNCHANGED <<mem, slots>>
    ELSE LET c_string == CString_new(msg)
         IN  \E a \in FreeAddrs(mem) :
                 /\ mem' = [mem EXCEPT ![a] = IF c_string.ok THEN c_string.text
                                                ELSE <<NUL>>]
                 /\ slots' = [slots EXCEPT ![out_error] = a]

\* Variant: the slot's previous string is released before the slot is written.
set_error_frees_prior(out_error, msg) ==
    IF out_error = NULL THEN UNCHANGED <<mem, slots>>
    ELSE LET c_string == CString_new(msg)
             prior == slots[out_error]
             freed == IF Live(mem, prior) THEN [mem EXCEPT ![prior] = <<>>] ELSE mem
         IN  IF c_string.ok
             THEN \E a \in FreeAddrs(mem) :
                     /\ mem' = [freed EXCEPT ![a] = c_string.text]
                     /\ slots' = [slots EXCEPT ![out_error] = a]
             ELSE UNCHANGED <<mem, slots>>

\* set_error(out_error, msg): the effect on the slot and the heap.
set_error(out_error, msg) ==
    IF out_error = NULL THEN UNCHANGED <<mem, slots>>
    ELSE LET c_string == CString_new(msg)
         IN  IF c_string.ok
             THEN \E a \in FreeAddrs(mem) :
                     /\ mem' = [mem EXCEPT ![a] = c_string.text]
                     /\ slots' = [slots EXCEPT ![out_error] = a]
             ELSE UNCHANGED <<mem, slots>>

\* Variant: a domain error is reported with the panic prefix.
ffi_boundary_prefixes_error(out_error, default, f) ==
    LET call == [NoCall EXCEPT !.op = "ffi_boundary", !.slot = out_error,
                               !.dflt = default, !.work = f]
    IN  CASE f.kind = "Ok" ->
               /\ UNCHANGED <<mem, slots>>
               /\ last' = [call EXCEPT !.res = ValRes(f.val)]
          [] f.kind = "Err" ->
               LET m == to_string(f.e)
               IN  IF m.ok
                   THEN /\ set_error(out_error, InternalPanicPrefix \o m.text)
                        /\ last' = [call EXCEPT !.res = ValRes(default)]
                   ELSE /\ UNCHANGED <<mem, slots>>
                        /\ last' = [call EXCEPT !.outcome = "unwound"]
          [] f.kind = "Panic" ->
               LET msg == extract_panic_message(f.payload)
               IN  /\ set_error(out_error, InternalPanicPrefix \o msg)
                   /\ last' = [call EXCEPT !.res = ValRes(default)]

\* Variant: the slot is cleared when the unit of work succeeds.
ffi_boundary_clears_slot(out_error, default, f) ==
    LET call == [NoCall EXCEPT !.op = "ffi_boundary", !.slot = out_error,
                               !.dflt = default, !.work = f]
    IN  CASE f.kind = "Ok" ->
               /\ mem' = mem
               /\ slots' = IF out_error = NULL THEN slots
                           ELSE [slots EXCEPT ![out_error] = NULL]
               /\ last' = [call EXCEPT !.res = ValRes(f.val)]
          [] f.kind = "Err" ->
               LET m == to_string(f.e)
               IN  IF m.ok
                   THEN /\ set_error(out_error, m.text)
                        /\ last' = [call EXCEPT !.res = ValRes(default)]
                   ELSE /\ UNCHANGED <<mem, slots>>
                        /\ last' = [call EXCEPT !.outcome = "unwound"]
          [] f.kind = "Panic" ->
               LET msg == extract_panic_message(f.payload)
               IN  /\ set_error(out_error, InternalPanicPrefix \o msg)
                   /\ last' = [call EXCEPT !.res = ValRes(default)]

ffi_boundary(out_error, default, f) ==
    LET call == [NoCall EXCEPT !.op = "ffi_boundary", !.slot = out_error,
                               !.dflt = default, !.work = f]
    IN  CASE f.kind = "Ok" ->
               /\ UNCHANGED <<mem, slots>>
               /\ last' = [call EXCEPT !.res = ValRes(f.val)]
          [] f.kind = "Err" ->
               LET m == to_string(f.e)
               IN  IF m.ok
                   THEN /\ set_error(out_error, m.text)
                        /\ last' = [call EXCEPT !.res = ValRes(default)]
                   ELSE /\ UNCHANGED <<mem, slots>>
                        /\ last' = [call EXCEPT !.outcome = "unwound"]
          [] f.kind = "Panic" ->
               LET msg == extract_panic_message(f.payload)
               IN  /\ set_error(out_error, InternalPanicPrefix \o msg)
                   /\ last' = [call EXCEPT !.res = ValRes(default)]

\* eprintln!: the line reaches stderr, or the write fails and eprintln! panics.
ffi_boundary_simple(default, f) ==
    LET call == [NoCall EXCEPT !.op = "ffi_boundary_simple", !.dflt = default,
                               !.work = f]
    IN  /\ UNCHANGED <<mem, slots>>
        /\ IF f.kind = "Ok"
           THEN last' = [call EXCEPT !.res = ValRes(f.val)]
           ELSE LET msg == extract_panic_message(f.payload)
                IN  \/ last' = [call EXCEPT !.res = ValRes(default),
                                   !.logged = <<PanicCaughtPrefix \o msg \o <<10>>>>]
                    \/ last' = [call EXCEPT !.outcome = "unwound"]

\* on_panic is a caller's closure: it takes the message and returns, or panics.
ffi_boundary_with_log(default, on_panic, f) ==
    LET call == [NoCall EXCEPT !.op = "ffi_boundary_with_log", !.dflt = default,
                               !.work = f, !.cb = on_panic]
    IN  /\ UNCHANGED <<mem, slots>>
        /\ IF f.kind = "Ok"
           THEN last' = [call EXCEPT !.res = ValRes(f.val)]
           ELSE LET msg == extract_panic_message(f.payload)
                IN  IF on_panic = "returns"
                    THEN last' = [call EXCEPT !.res = ValRes(default),
                                              !.delivered = <<msg>>]
                    ELSE last' = [call EXCEPT !.outcome = "unwound",
                                              !.delivered = <<msg>>]

\* ----------------------------------------------------------------- actions
\* Calls are synchronous: one call at a time, and the caller takes its outcome
\* before it calls again.
Idle == last = NoCall

Caller_resumes ==
    /\ ~Idle
    /\ last' = NoCall
    /\ UNCHANGED <<mem, slots>>

\* Pointer arguments a caller may pass where the contract asks for a valid C
\* string, each with the content of the caller's own buffer: null, a live
\* buffer of this library, or the caller's buffer.
LivePtrs == {a \in Addrs : Live(mem, a)}
ViewArgs ==
    {<<p, <<NUL>>>> : p \in {NULL} \cup LivePtrs}
    \cup {<<ForeignAddr, raw>> : raw \in ForeignBuffers}
OutErrors == {NULL} \cup Slots

Call_str_to_cstring ==
    /\ Idle
    /\ \E s \in Texts : str_to_cstring(s)
    /\ UNCHANGED slots

\* Safety contract: the pointer came from str_to_cstring or set_error and has
\* not been released yet, or it is null.
Call_vimo_ffi_free_string ==
    /\ Idle
    /\ \E ptr \in {NULL} \cup LivePtrs : vimo_ffi_free_string(ptr)
    /\ UNCHANGED slots

Call_set_error ==
    /\ Idle
    /\ \E out_error \in OutErrors, msg \in Messages :
          /\ set_error(out_error, msg)
          /\ last' = [NoCall EXCEPT !.op = "set_error", !.slot = out_error,
                                    !.text = msg]

Call_cstr_to_str ==
    /\ Idle
    /\ \E arg \in ViewArgs :
          last' = [NoCall EXCEPT !.op = "cstr_to_str", !.ptr = arg[1], !.raw = arg[2],
                                 !.res = cstr_to_str(arg[1], View(mem, arg[2]))]
    /\ UNCHANGED <<mem, slots>>

Call_cstr_to_string ==
    /\ Idle
    /\ \E arg \in ViewArgs :
          last' = [NoCall EXCEPT !.op = "cstr_to_string", !.ptr = arg[1], !.raw = arg[2],
                                 !.res = cstr_to_string(arg[1], View(mem, arg[2]))]
    /\ UNCHANGED <<mem, slots>>

Call_cstr_to_option_str ==
    /\ Idle
    /\ \E arg \in ViewArgs :
          last' = [NoCall EXCEPT !.op = "cstr_to_option_str", !.ptr = arg[1],
                                 !.raw = arg[2],
                                 !.res = cstr_to_option_str(arg[1], View(mem, arg[2]))]
    /\ UNCHANGED <<mem, slots>>

Call_cstr_to_str_or ==
    /\ Idle
    /\ \E arg \in ViewArgs, default \in Texts :
          last' = [NoCall EXCEPT !.op = "cstr_to_str_or", !.ptr = arg[1], !.raw = arg[2],
                                 !.text = default,
                                 !.res = cstr_to_str_or(arg[1], default, View(mem, arg[2]))]
    /\ UNCHANGED <<mem, slots>>

Call_ffi_boundary ==
    /\ Idle
    /\ \E out_error \in OutErrors, default \in Values, f \in ResultWorks :
          ffi_boundary(out_error, default, f)

Call_ffi_boundary_simple ==
    /\ Idle
    /\ \E default \in Values, f \in PlainWorks : ffi_boundary_simple(default, f)

Call_ffi_boundary_with_log ==
    /\ Idle
    /\ \E default \in Values, on_panic \in {"returns", "panics"}, f \in PlainWorks :
          ffi_boundary_with_log(default, on_panic, f)

Init ==
    /\ mem = [a \in Addrs |-> <<>>]
    /\ slots = [s \in Slots |-> NULL]
    /\ last = NoCall

\* The whole crate.
Next ==
    \/ Call_str_to_cstring
    \/ Call_vimo_ffi_free_string
    \/ Call_set_error
    \/ Call_cstr_to_str
    \/ Call_cstr_to_string
    \/ Call_cstr_to_option_str
    \/ Call_cstr_to_str_or
    \/ Call_ffi_boundary
    \/ Call_ffi_boundary_simple
    \/ Call_ffi_boundary_with_log
    \/ Caller_resumes

Spec == Init /\ [][Next]_vars

\* string.rs alone: marshaling, viewing and release.
NextString ==
    \/ Call_str_to_cstring
    \/ Call_vimo_ffi_free_string
    \/ Call_cstr_to_str
    \/ Call_cstr_to_string
    \/ Call_cstr_to_option_str
    \/ Call_cstr_to_str_or
    \/ Caller_resumes

SpecString == Init /\ [][NextString]_vars

\* The three barrier shapes of panic.rs, with release of what they allocate.
NextBarrier ==
    \/ Call_ffi_boundary
    \/ Call_ffi_boundary_simple
    \/ Call_ffi_boundary_with_log
    \/ Call_vimo_ffi_free_string
    \/ Caller_resumes

SpecBarrier == Init /\ [][NextBarrier]_vars

\* Everything that allocates or releases: marshal-out, report, guarded, release.
NextChannel ==
    \/ Call_str_to_cstring
    \/ Call_set_error
    \/ Call_ffi_boundary
    \/ Call_vimo_ffi_free_string
    \/ Caller_resumes

SpecChannel == Init /\ [][NextChannel]_vars

\* ------------------------------------------------------------------ claims
BarrierOps == {"ffi_boundary", "ffi_boundary_simple", "ffi_boundary_with_log"}

\* The step wrote a newly allocated C string holding exactly text into slot s
\* and touched nothing else.
WroteFresh(s, text) ==
    \E a \in Addrs :
        /\ ~Live(mem, a)
        /\ mem' = [mem EXCEPT ![a] = text \o <<NUL>>]
        /\ slots' = [slots EXCEPT ![s] = a]

\* The message the claims expect for a payload: its text for &str and String,
\* the fixed literal for any other shape.
Classified(p) == IF p.shape \in {"str", "String"} THEN p.text ELSE UnknownPanic

\* C1: every call of one of the three barrier shapes ends by returning a value;
\* no panic leaves the call, whatever the unit of work, the domain error's
\* rendering or the callback does.
C1_NoPanicLeavesTheBarrier ==
    last.op \in BarrierOps => last.outcome = "returned"

\* C2 as claimed: ffi_boundary on a domain error rendering to m, with a slot,
\* returns default and leaves in the slot a fresh C string holding exactly m,
\* for every m.
C2_ErrorWrittenForEveryMessage ==
    [][(last'.op = "ffi_boundary" /\ last'.work.kind = "Err"
        /\ to_string(last'.work.e).ok /\ last'.slot # NULL)
       => /\ last'.outcome = "returned"
          /\ last'.res = ValRes(last'.dflt)
          /\ WroteFresh(last'.slot, to_string(last'.work.e).text)]_vars

\* C2 amended: ffi_boundary on a domain error rendering to m, with a slot,
\* returns default; the slot gets a fresh C string holding exactly m when m has
\* no 0 byte, and slot and heap stay as they were when m has one.
C2_ErrorWrittenUnlessNul ==
    [][(last'.op = "ffi_boundary" /\ last'.work.kind = "Err"
        /\ to_string(last'.work.e).ok /\ last'.slot # NULL)
       => LET m == to_string(last'.work.e).text
          IN  /\ last'.outcome = "returned"
              /\ last'.res = ValRes(last'.dflt)
              /\ IF Contains(m, NUL) THEN UNCHANGED <<mem, slots>>
                 ELSE WroteFresh(last'.slot, m)]_vars

C2_Witness ==
    /\ last.op = "ffi_boundary" /\ last.work.kind = "Err"
    /\ last.work.e.variant = "Custom" /\ last.work.e.msg = <<65>>
    /\ last.slot # NULL /\ last.res = ValRes(last.dflt)
    /\ Live(mem, slots[last.slot]) /\ mem[slots[last.slot]] = <<65, NUL>>

C4_SuccessLeavesSlotUntouched ==
    [][(last'.op = "ffi_boundary" /\ last'.work.kind = "Ok")
       => /\ last'.outcome = "returned"
          /\ last'.res = ValRes(last'.work.val)
          /\ UNCHANGED <<mem, slots>>]_vars

C4_Witness ==
    /\ last.op = "ffi_boundary" /\ last.work.kind = "Ok"
    /\ last.res.val = last.work.val /\ last.res.val # last.dflt
    /\ last.slot # NULL /\ Live(mem, slots[last.slot])

\* C5: ffi_boundary_simple and ffi_boundary_with_log return the value and send
\* nothing to the sink on success; on a panic they return default and the
\* classified message reaches the sink exactly once (the stderr line, or the
\* callback); no slot is written.
C5_PanicGoesToSinkOnce ==
    [][(last'.op \in {"ffi_boundary_simple", "ffi_boundary_with_log"})
       => /\ UNCHANGED <<mem, slots>>
          /\ last'.outcome = "returned"
          /\ IF last'.work.kind = "Ok"
             THEN /\ last'.res = ValRes(last'.work.val)
                  /\ last'.logged = <<>> /\ last'.delivered = <<>>
             ELSE LET msg == Classified(last'.work.payload)
                  IN  /\ last'.res = ValRes(last'.dflt)
                      /\ IF last'.op = "ffi_boundary_simple"
                         THEN /\ last'.logged = <<PanicCaughtPrefix \o msg \o <<10>>>>
                              /\ last'.delivered = <<>>
                         ELSE /\ last'.delivered = <<msg>>
                              /\ last'.logged = <<>>]_vars

\* C6: set_error writes a fresh C string copy of the message into the slot
\* exactly when the slot is present and the message has no 0 byte; otherwise
\* slot and heap stay as they were; it always returns.
C6_SetErrorWritesOrSkips ==
    [][(last'.op = "set_error")
       => /\ last'.outcome = "returned"
          /\ IF last'.slot # NULL /\ ~Contains(last'.text, NUL)
             THEN WroteFresh(last'.slot, last'.text)
             ELSE UNCHANGED <<mem, slots>>]_vars

C6_Witness ==
    /\ last.op = "set_error" /\ last.slot # NULL /\ last.text = <<65>>
    /\ mem[slots[last.slot]] = <<65, NUL>>
    /\ \A a \in Addrs : Live(mem, a)

\* C7: for a text without a 0 byte str_to_cstring succeeds, and cstr_to_str on
\* the pointer it returned gives back exactly that text.
C7_MarshalViewRoundTrip ==
    (last.op = "str_to_cstring" /\ ~Contains(last.text, NUL))
    => /\ last.res.ok
       /\ Live(mem, last.res.ptr)
       /\ cstr_to_str(last.res.ptr, View(mem, <<NUL>>)) = TextRes(last.text)

C7_Witness ==
    /\ last.op = "str_to_cstring" /\ last.text = <<195, 169>>
    /\ last.res.ok /\ mem[last.res.ptr] = <<195, 169, NUL>>

\* C8: for a text with a 0 byte at any position str_to_cstring fails with
\* StringContainsNull, hands out no pointer and leaves the heap as it was.
C8_NulRefusedWithoutAllocation ==
    [][(last'.op = "str_to_cstring" /\ Contains(last'.text, NUL))
       => /\ last'.res = ErrRes("StringContainsNull")
          /\ UNCHANGED <<mem, slots>>]_vars

C8_Witness ==
    /\ last.op = "str_to_cstring" /\ last.text = <<65, NUL>>
    /\ ~last.res.ok /\ last.res.ptr = NULL

\* The caller's buffer does not hold valid UTF-8 before its terminator.
Malformed(raw) == ~run_utf8_validation(SubSeq(raw, 1, strlen(raw)))

\* C9: on null, cstr_to_str and cstr_to_string fail with NullPointer,
\* cstr_to_option_str succeeds with None and cstr_to_str_or returns the default;
\* on a malformed buffer the first three fail with InvalidUtf8 and
\* cstr_to_str_or returns the default; cstr_to_str_or never fails.
C9_BadInputMapping ==
    LET bad == last.ptr = ForeignAddr /\ Malformed(last.raw)
    IN  /\ last.op \in {"cstr_to_str", "cstr_to_string"}
           => /\ last.ptr = NULL => last.res = ErrRes("NullPointer")
              /\ bad => last.res = ErrRes("InvalidUtf8")
        /\ last.op = "cstr_to_option_str"
           => /\ last.ptr = NULL => last.res = NoRes
              /\ bad => last.res = ErrRes("InvalidUtf8")
        /\ last.op = "cstr_to_str_or"
           => /\ last.res.ok /\ last.outcome = "returned"
              /\ (last.ptr = NULL \/ bad) => last.res = TextRes(last.text)

C9_Witness ==
    /\ last.op = "cstr_to_str_or" /\ last.ptr = ForeignAddr
    /\ last.raw = <<65, 169, NUL>> /\ last.text = <<65>>
    /\ last.res = TextRes(<<65>>)

\* C10: a buffer stops being allocated only in a vimo_ffi_free_string call given
\* that buffer's non-null pointer; releasing null changes nothing; set_error and
\* ffi_boundary allocate at most one string per call, change at most the slot
\* they were given and leave every buffer that was allocated as it was, the
\* one the slot pointed to included.
C10_OnlyReleaseFrees ==
    [][/\ \A a \in Addrs :
             (Live(mem, a) /\ ~Live(mem', a))
             => last'.op = "vimo_ffi_free_string" /\ last'.ptr = a /\ a # NULL
       /\ (last'.op = "vimo_ffi_free_string" /\ last'.ptr = NULL)
          => UNCHANGED <<mem, slots>>
       /\ (last'.op \in {"set_error", "ffi_boundary"})
          => /\ Cardinality({a \in Addrs : ~Live(mem, a) /\ Live(mem', a)}) <= 1
             /\ \A a \in Addrs : Live(mem, a) => mem'[a] = mem[a]
             /\ \A s \in Slots : s # last'.slot => slots'[s] = slots[s]]_vars

\* Both strings were written through error slots and both are still allocated.
C10_Witness ==
    /\ last.op = "ffi_boundary" /\ last.slot # NULL /\ last.work.kind = "Panic"
    /\ \A a \in Addrs :
          Live(mem, a) /\ Len(mem[a]) > Len(InternalPanicPrefix)
    /\ \E a \in Addrs : slots[last.slot] # a

====
